---- MODULE Spec2Model ----
(***************************************************************************)
(* Elliptic-curve calculator: Curve.add / Curve.mul over Z_p and GF(2^n),   *)
(* the task parser's scalar operand, and the batch driver's worker pool.    *)
(***************************************************************************)
EXTENDS Integers, Sequences, FiniteSets, TLC

\* ------------------------------------------------------------------ bounds

\* Point coordinates range over 0 .. p-1+MaxUnreduced: the parser does not
\* reduce coordinates, so values >= p reach Curve.add.
MaxUnreduced == 1
\* Longest digit string of a scalar token.
MaxDigits == 2
\* Cap on the iterations of Curve.mul's loop that the model follows.
MaxIters == 13
\* Largest sum k1 + k2 of the "small" scalars of the distributivity property.
MaxSmallScalar == 4
\* Input files matched by the driver's glob, task lines per file, pool threads.
NumFiles == 2
TasksPerFile == 2
MaxWorkers == 2

\* ------------------------------------------------------------------ points

\* Python's None, the coordinate of the point at infinity.
None == -1

\* Point.infinity()
Infinity == [x |-> None, y |-> None]

\* Point.is_infinite
is_infinite(P) == P.x = None /\ P.y = None

Point(x, y) == [x |-> x, y |-> y]

\* ------------------------------------------------------------------ Z_p field

NoError == "none"
NotInvertible == "NotInvertible"
CalculationError == "CalculationError"

\* ZpField.modulus / ZpField.normalize_element: true mathematical modulo.
ZpModulus(p, v) == v % p

\* Extended Euclidean algorithm over the integers: g = gcd(a, b) = a*x + b*y.
RECURSIVE ExtGcd(_, _)
ExtGcd(a, b) ==
    IF a = 0 THEN [g |-> b, x |-> 0, y |-> 1]
    ELSE LET r == ExtGcd(b % a, a)
         IN  [g |-> r.g, x |-> r.y - (b \div a) * r.x, y |-> r.x]

\* ZpField.invert: the modular inverse, a computation error if gcd(v, p) # 1.
ZpInvert(p, v) ==
    LET e == ExtGcd(v % p, p)
    IN  IF e.g # 1 THEN [err |-> NotInvertible, val |-> 0]
        ELSE [err |-> NoError, val |-> e.x % p]

\* ------------------------------------------------------------------ ZpCurve

\* The outcome of a hook or of add/mul: the value returned or the error raised,
\* and the hooks and field inversions evaluated on the way.
Raise(e, tr) == [err |-> e, pt |-> Infinity, trace |-> tr]
Return(P, tr) == [err |-> NoError, pt |-> P, trace |-> tr]

\* Mutant of the chord coefficient: the y coordinates added, not subtracted.
Zp_first_case_coefficient_SumY(c, P, Q) ==
    LET i == ZpInvert(c.p, Q.x - P.x)
    IN  [calls |-> <<"invert">>, err |-> i.err, val |-> ZpModulus(c.p, (Q.y + P.y) * i.val)]

\* ZpCurve._first_case_coefficient: k = (y2 - y1) / (x2 - x1)
Zp_first_case_coefficient(c, P, Q) ==
    LET i == ZpInvert(c.p, Q.x - P.x)
    IN  [calls |-> <<"invert">>, err |-> i.err, val |-> ZpModulus(c.p, (Q.y - P.y) * i.val)]

\* Mutant of the doubling coefficient: the curve's a left out of the numerator.
Zp_third_case_coefficient_NoA(c, P, Q) ==
    LET i == ZpInvert(c.p, 2 * P.y)
    IN  [calls |-> <<"invert">>, err |-> i.err, val |-> ZpModulus(c.p, (3 * P.x * P.x) * i.val)]

\* ZpCurve._third_case_coefficient: k = (3(x1)^2 + a) / (2 y1)
Zp_third_case_coefficient(c, P, Q) ==
    LET i == ZpInvert(c.p, 2 * P.y)
    IN  [calls |-> <<"invert">>, err |-> i.err, val |-> ZpModulus(c.p, (3 * P.x * P.x + c.a) * i.val)]

\* Mutant of the result formula: y3 taken from the second point's y.
Zp_additive_point_SecondY(c, P, Q, k) ==
    LET x3 == ZpModulus(c.p, k * k - P.x - Q.x)
        y3 == ZpModulus(c.p, Q.y + k * (x3 - P.x))
    IN  Point(x3, ZpModulus(c.p, 0 - y3))

\* ZpCurve._additive_point
Zp_additive_point(c, P, Q, k) ==
    LET x3 == ZpModulus(c.p, k * k - P.x - Q.x)
        y3 == ZpModulus(c.p, P.y + k * (x3 - P.x))
    IN  Point(x3, ZpModulus(c.p, 0 - y3))

\* ------------------------------------------------------------------ GF(2)[x] and GF(2^n)

\* Polynomial addition: bitwise XOR of the bit vectors.
RECURSIVE PolyAdd(_, _)
PolyAdd(a, b) ==
    IF a = 0 THEN b
    ELSE IF b = 0 THEN a
    ELSE (((a % 2) + (b % 2)) % 2) + 2 * PolyAdd(a \div 2, b \div 2)

\* Polynomial multiplication: carry-less, for each set bit i of b XOR a << i.
RECURSIVE PolyMul(_, _)
PolyMul(a, b) ==
    IF b = 0 THEN 0
    ELSE PolyAdd(IF b % 2 = 1 THEN a ELSE 0, 2 * PolyMul(a, b \div 2))

\* Bit length of a bit vector: the degree plus one, 0 for the zero polynomial.
RECURSIVE PolyBits(_)
PolyBits(a) == IF a = 0 THEN 0 ELSE 1 + PolyBits(a \div 2)

\* Quotient and remainder of the carry-less division of a by b # 0.
RECURSIVE PolyDivMod(_, _)
PolyDivMod(a, b) ==
    IF PolyBits(a) < PolyBits(b) THEN [q |-> 0, r |-> a]
    ELSE LET sh   == 2 ^ (PolyBits(a) - PolyBits(b))
             rest == PolyDivMod(PolyAdd(a, b * sh), b)
         IN  [q |-> PolyAdd(sh, rest.q), r |-> rest.r]

\* GF2PolynomialField.modulus / normalize_element: reduce by the irreducible polynomial.
GF2Modulus(irr, v) == PolyDivMod(v, irr).r

\* Extended Euclidean algorithm over GF(2)[x]: g = a*x + b*y.
RECURSIVE PolyExtGcd(_, _)
PolyExtGcd(a, b) ==
    IF a = 0 THEN [g |-> b, x |-> 0, y |-> 1]
    ELSE LET d == PolyDivMod(b, a)
             r == PolyExtGcd(d.r, a)
         IN  [g |-> r.g, x |-> PolyAdd(r.y, PolyMul(d.q, r.x)), y |-> r.x]

\* GF2PolynomialField.invert: a computation error for the zero polynomial.
GF2Invert(irr, v) ==
    LET a == GF2Modulus(irr, v)
    IN  IF a = 0 THEN [err |-> NotInvertible, val |-> 0]
        ELSE [err |-> NoError, val |-> GF2Modulus(irr, PolyExtGcd(a, irr).x)]

\* GF2PolynomialField.zero
GF2Zero == 0

\* ------------------------------------------------------------------ GF2SupersingularCurve

\* GF2SupersingularCurve._first_case_coefficient: k = (y1 + y2) / (x1 + x2)
SS2_first_case_coefficient(c, P, Q) ==
    LET i == GF2Invert(c.irr, PolyAdd(P.x, Q.x))
    IN  [calls |-> <<"invert">>, err |-> i.err, val |-> GF2Modulus(c.irr, PolyMul(PolyAdd(P.y, Q.y), i.val))]

\* Mutant of the doubling coefficient: a compared with zero without reducing it.
SS2_third_case_coefficient_RawA(c, P, Q) ==
    IF c.a = GF2Zero THEN [calls |-> <<>>, err |-> CalculationError, val |-> 0]
    ELSE LET i == GF2Invert(c.irr, c.a)
         IN  [calls |-> <<"invert">>, err |-> i.err,
              val |-> GF2Modulus(c.irr, PolyMul(PolyAdd(PolyMul(P.x, P.x), c.b), i.val))]

\* GF2SupersingularCurve._third_case_coefficient: k = ((x1)^2 + b) / a
SS2_third_case_coefficient(c, P, Q) ==
    IF GF2Modulus(c.irr, c.a) = GF2Zero THEN [calls |-> <<>>, err |-> CalculationError, val |-> 0]
    ELSE LET i == GF2Invert(c.irr, c.a)
         IN  [calls |-> <<"invert">>, err |-> i.err,
              val |-> GF2Modulus(c.irr, PolyMul(PolyAdd(PolyMul(P.x, P.x), c.b), i.val))]

\* GF2SupersingularCurve._additive_point
SS2_additive_point(c, P, Q, k) ==
    LET x3 == GF2Modulus(c.irr, PolyAdd(PolyAdd(PolyMul(k, k), P.x), Q.x))
        y3 == GF2Modulus(c.irr, PolyAdd(P.y, PolyMul(k, PolyAdd(x3, P.x))))
    IN  Point(x3, GF2Modulus(c.irr, PolyAdd(c.a, y3)))

\* ------------------------------------------------------------------ Curve

\* The curve's field: Field.normalize_element
normalize_element(c, v) ==
    IF c.kind = "Zp" THEN ZpModulus(c.p, v) ELSE GF2Modulus(c.irr, v)

\* The three hooks, each dispatched to the curve's class.
first_case_coefficient(c, P, Q) ==
    IF c.kind = "Zp" THEN Zp_first_case_coefficient(c, P, Q)
    ELSE SS2_first_case_coefficient(c, P, Q)

third_case_coefficient(c, P, Q) ==
    IF c.kind = "Zp" THEN Zp_third_case_coefficient(c, P, Q)
    ELSE SS2_third_case_coefficient(c, P, Q)

additive_point(c, P, Q, k) ==
    IF c.kind = "Zp" THEN Zp_additive_point(c, P, Q, k)
    ELSE SS2_additive_point(c, P, Q, k)

\* Mutant of the tail of Curve.add: the result built from the raw integers,
\* with no reduction of its coordinates.
AddFinish_Unreduced(c, P, Q, k, tr) ==
    IF k.err # NoError THEN Raise(k.err, tr \o k.calls)
    ELSE LET x3 == k.val * k.val - P.x - Q.x
             y3 == P.y + k.val * (x3 - P.x)
         IN  Return(Point(x3, 0 - y3), tr \o k.calls \o <<"additive_point">>)

\* The tail of Curve.add after the coefficient: normalize k, build the point,
\* normalize its coordinates.
AddFinish(c, P, Q, k, tr) ==
    IF k.err # NoError THEN Raise(k.err, tr \o k.calls)
    ELSE LET kn == normalize_element(c, k.val)
             R  == additive_point(c, P, Q, kn)
         IN  Return(Point(normalize_element(c, R.x), normalize_element(c, R.y)),
                    tr \o k.calls \o <<"additive_point">>)

\* Mutant of Curve.add: the test of the second operand for infinity is missing.
add_NoSecondInfinityTest(c, P, Q) ==
    IF is_infinite(P) THEN Return(Q, <<>>)
    ELSE IF P.x # Q.x
         THEN AddFinish(c, P, Q, first_case_coefficient(c, P, Q),
                       <<"first_case">>)
    ELSE IF P.x = Q.x /\ P.y # Q.y THEN Return(Infinity, <<>>)
    ELSE AddFinish(c, P, Q, third_case_coefficient(c, P, Q),
                  <<"third_case">>)

\* Curve.add
add(c, P, Q) ==
    IF is_infinite(P) THEN Return(Q, <<>>)
    ELSE IF is_infinite(Q) THEN Return(P, <<>>)
    ELSE IF P.x # Q.x
         THEN AddFinish(c, P, Q, first_case_coefficient(c, P, Q),
                       <<"first_case">>)
    ELSE IF P.x = Q.x /\ P.y # Q.y THEN Return(Infinity, <<>>)
    ELSE AddFinish(c, P, Q, third_case_coefficient(c, P, Q),
                  <<"third_case">>)

\* ------------------------------------------------------------------ parser

\* The characters a scalar token is drawn from.
DigitChars == {"0", "1", "3", "a"}
Signs == {<<>>, <<"-">>}
Prefixes == {<<>>, <<"0", "b">>, <<"0", "x">>}

\* Python's str.startswith
StartsWith(s, pre) == Len(s) >= Len(pre) /\ SubSeq(s, 1, Len(pre)) = pre

\* The value of a digit character, 99 for a character that is no digit.
DigitVal(ch) ==
    CASE ch = "0" -> 0 [] ch = "1" -> 1 [] ch = "3" -> 3
      [] ch = "a" -> 10 [] ch = "b" -> 11
      [] OTHER -> 99

RECURSIVE DigitsValue(_, _)
DigitsValue(ds, base) ==
    IF ds = <<>> THEN 0
    ELSE DigitsValue(SubSeq(ds, 1, Len(ds) - 1), base) * base + DigitVal(ds[Len(ds)])

\* The literal prefix Python's int(s, base) accepts for a base.
BasePrefix(base) ==
    CASE base = 2 -> <<"0", "b">> [] base = 8 -> <<"0", "o">>
      [] base = 16 -> <<"0", "x">> [] OTHER -> <<"?">>

\* Python's int(s, base): an optional sign, the base's optional prefix, then
\* one or more digits of the base; ValueError otherwise.
PyInt(s, base) ==
    LET neg  == StartsWith(s, <<"-">>)
        s1   == IF neg THEN Tail(s) ELSE s
        s2   == IF StartsWith(s1, BasePrefix(base)) THEN SubSeq(s1, 3, Len(s1)) ELSE s1
        ok   == Len(s2) > 0 /\ \A i \in 1..Len(s2) : DigitVal(s2[i]) < base
        v    == DigitsValue(s2, base)
    IN  IF ok THEN [err |-> NoError, val |-> IF neg THEN 0 - v ELSE v]
        ELSE [err |-> "ValueError", val |-> 0]

\* common.parse_int
parse_int(number_str) ==
    LET b0 == 10
        b1 == IF StartsWith(number_str, <<"0", "b">>) THEN 2 ELSE b0
        b2 == IF StartsWith(number_str, <<"0", "o">>) THEN 8 ELSE b1
        b3 == IF StartsWith(number_str, <<"0", "x">>) THEN 16 ELSE b2
    IN  PyInt(number_str, b3)

\* ------------------------------------------------------------------ Curve.mul

\* One iteration of the loop of Curve.mul on the loop's locals.
MulBody(c, st) ==
    LET r1 == IF st.scalar % 2 = 1 THEN add(c, st.result, st.addend)
              ELSE Return(st.result, <<>>)
        a1 == add(c, st.addend, st.addend)
    IN  IF r1.err # NoError THEN [st EXCEPT !.err = r1.err]
        ELSE IF a1.err # NoError THEN [st EXCEPT !.result = r1.pt, !.err = a1.err]
        ELSE [result |-> r1.pt, addend |-> a1.pt,
              scalar |-> st.scalar \div 2, err |-> NoError]

\* The locals of Curve.mul on entry.
MulEntry(P, k) == [result |-> Infinity, addend |-> P, scalar |-> k, err |-> NoError]

\* Curve.mul for a non-negative scalar: the loop run to its end.
RECURSIVE MulLoop(_, _)
MulLoop(c, st) ==
    IF st.err # NoError THEN Raise(st.err, <<>>)
    ELSE IF st.scalar = 0 THEN Return(st.result, <<>>)
    ELSE MulLoop(c, MulBody(c, st))

mul(c, P, k) == MulLoop(c, MulEntry(P, k))

\* ------------------------------------------------------------------ state

VARIABLES
    curve,       \* the ZpCurve of the run: [p, a, b]
    task,        \* the task: task_type, its points, the scalar operand's token
    pc,          \* "start", "mul" (inside Curve.mul's loop), "done", "rejected"
    task_scalar, \* TaskConfig.scalar, as parse_int returned it
    result,      \* Curve.mul's local result
    addend,      \* Curve.mul's local addend
    scalar,      \* Curve.mul's local scalar
    iters,       \* iterations of Curve.mul's loop so far
    out          \* what the call returned or raised

calcVars == <<curve, task, pc, task_scalar, result, addend, scalar, iters, out>>

VARIABLES
    fileKind,    \* per input file: how its run() ends ("ok", "parse_error", "calc_error")
    mainPc,      \* run_on_directory's position
    cur,         \* the file whose future the loop body holds
    queue,       \* the executor's work queue
    fut,         \* per file: its future's state
    exc,         \* per file: its future's exception
    runPc,       \* per file: the position of the worker thread running run()
    written,     \* per file: lines written to its output file
    registered,  \* per file: _check_error is in the future's done callbacks
    logged       \* exceptions of done callbacks caught and logged by the future

poolVars == <<fileKind, mainPc, cur, queue, fut, exc, runPc, written, registered, logged>>

vars == <<calcVars, poolVars>>

Files == 1 .. NumFiles

\* The driver at rest: the state of the pool's variables in the runs of one task.
PoolIdle ==
    /\ fileKind = [f \in Files |-> "ok"]
    /\ mainPc = "idle"
    /\ cur = 0
    /\ queue = <<>>
    /\ fut = [f \in Files |-> "unsubmitted"]
    /\ exc = [f \in Files |-> "none"]
    /\ runPc = [f \in Files |-> "idle"]
    /\ written = [f \in Files |-> 0]
    /\ registered = [f \in Files |-> FALSE]
    /\ logged = 0

\* The curves of the runs: y^2 = x^3 + x + 1 over Z_23 and over Z_5.
Curves == {[kind |-> "Zp", p |-> 23, a |-> 1, b |-> 1],
           [kind |-> "Zp", p |-> 5, a |-> 1, b |-> 1]}

\* The binary supersingular curves of the runs, over GF(2^2) with x^2 + x + 1:
\* a ranges over values that are, reduce to, and do not reduce to the zero element.
SS2Curves == {[kind |-> "SS2", n |-> 2, irr |-> 7, a |-> a, b |-> b, c |-> 1] :
                 a \in {0, 1, 3, 7}, b \in {0, 2}}

\* Number of canonical representatives of the curve's field.
FieldSize(c) == IF c.kind = "Zp" THEN c.p ELSE 2 ^ c.n

Coords(c) == 0 .. (FieldSize(c) - 1 + MaxUnreduced)
Plane(c) == {Point(x, y) : x \in Coords(c), y \in Coords(c)}
Points(c) == Plane(c) \cup {Infinity}

\* (x, y) satisfies y^2 = x^3 + a x + b over Z_p
OnCurve(c, P) ==
    /\ c.kind = "Zp"
    /\ ~is_infinite(P)
    /\ (P.y * P.y - (P.x * P.x * P.x + c.a * P.x + c.b)) % c.p = 0

Canonical(c, P) == P.x \in 0 .. (FieldSize(c) - 1) /\ P.y \in 0 .. (FieldSize(c) - 1)

RECURSIVE SeqsUpTo(_, _)
SeqsUpTo(S, n) ==
    IF n = 0 THEN {<<>>}
    ELSE LET shorter == SeqsUpTo(S, n - 1)
         IN  shorter \cup {Append(s, ch) : s \in shorter, ch \in S}

DigitStrings == SeqsUpTo(DigitChars, MaxDigits) \ {<<>>}

\* The scalar operand's token of a multiply line.
Tokens == {sg \o pre \o ds : sg \in Signs, pre \in Prefixes, ds \in DigitStrings}

AddTasks(c) == [task_type : {"a"}, p1 : Points(c), p2 : Points(c), token : {<<>>}]
\* The points of multiply tasks: every representative in range of a point of
\* the curve and, since the parser checks no point, the diagonal off the curve.
MulPoints(c) == {P \in Plane(c) : OnCurve(c, P) \/ P.x = P.y}
MulTasks(c) == [task_type : {"m"}, p1 : MulPoints(c), p2 : {Infinity}, token : Tokens]

NoOutcome == [err |-> "pending", pt |-> Infinity, trace |-> <<>>]

\* The state before the task runs, for a curve of the set given.
InitOn(curves) ==
    /\ curve \in curves
    /\ task \in AddTasks(curve) \cup MulTasks(curve)
    /\ pc = "start"
    /\ task_scalar = 0
    /\ result = Infinity
    /\ addend = Infinity
    /\ scalar = 0
    /\ iters = 0
    /\ out = NoOutcome
    /\ PoolIdle

\* TaskType.ADD: curve.add(*points)
RunAdd ==
    /\ pc = "start"
    /\ task.task_type = "a"
    /\ out' = add(curve, task.p1, task.p2)
    /\ pc' = "done"
    /\ UNCHANGED <<curve, task, task_scalar, result, addend, scalar, iters>>
    /\ UNCHANGED poolVars

\* _parse_task_operand on the scalar token, then the entry of Curve.mul
ParseAndEnterMul ==
    /\ pc = "start"
    /\ task.task_type = "m"
    /\ LET k == parse_int(task.token)
       IN  IF k.err # NoError
           THEN /\ pc' = "rejected"
                /\ out' = Raise("ParserError", <<>>)
                /\ UNCHANGED <<task_scalar, result, addend, scalar>>
           ELSE /\ pc' = "mul"
                /\ task_scalar' = k.val
                /\ result' = MulEntry(task.p1, k.val).result
                /\ addend' = MulEntry(task.p1, k.val).addend
                /\ scalar' = MulEntry(task.p1, k.val).scalar
                /\ out' = out
    /\ UNCHANGED <<curve, task, iters>>
    /\ UNCHANGED poolVars

\* One iteration of "while scalar:"
MulStep ==
    /\ pc = "mul"
    /\ scalar # 0
    /\ iters < MaxIters
    /\ LET st == MulBody(curve, [result |-> result, addend |-> addend,
                                 scalar |-> scalar, err |-> NoError])
       IN  /\ result' = st.result
           /\ addend' = st.addend
           /\ scalar' = st.scalar
           /\ iters' = iters + 1
           /\ IF st.err # NoError
              THEN pc' = "done" /\ out' = Raise(st.err, <<>>)
              ELSE pc' = "mul" /\ out' = out
    /\ UNCHANGED <<curve, task, task_scalar>>
    /\ UNCHANGED poolVars

\* "return result" once scalar is 0
MulReturn ==
    /\ pc = "mul"
    /\ scalar = 0
    /\ pc' = "done"
    /\ out' = Return(result, <<>>)
    /\ UNCHANGED <<curve, task, task_scalar, result, addend, scalar, iters>>
    /\ UNCHANGED poolVars

Next == RunAdd \/ ParseAndEnterMul \/ MulStep \/ MulReturn

Init == InitOn(Curves)

Spec == Init /\ [][Next]_vars

\* The runs on binary supersingular curves.
InitGF2 == InitOn(SS2Curves)

SpecGF2 == InitGF2 /\ [][Next]_vars

\* ------------------------------------------------------------------ run_on_directory

\* The calculator at rest, in the runs of the driver.
CalcIdle ==
    /\ curve = [kind |-> "Zp", p |-> 23, a |-> 1, b |-> 1]
    /\ task = [task_type |-> "a", p1 |-> Infinity, p2 |-> Infinity, token |-> <<>>]
    /\ pc = "idle"
    /\ task_scalar = 0
    /\ result = Infinity
    /\ addend = Infinity
    /\ scalar = 0
    /\ iters = 0
    /\ out = NoOutcome

FileKinds == {"ok", "parse_error", "calc_error"}

InitPool ==
    /\ CalcIdle
    /\ fileKind \in [Files -> FileKinds]
    /\ mainPc = "mkdir"
    /\ cur = 0
    /\ queue = <<>>
    /\ fut = [f \in Files |-> "unsubmitted"]
    /\ exc = [f \in Files |-> "none"]
    /\ runPc = [f \in Files |-> "idle"]
    /\ written = [f \in Files |-> 0]
    /\ registered = [f \in Files |-> FALSE]
    /\ logged = 0

\* Worker threads of the executor that hold a work item.
Busy == {f \in Files : runPc[f] \in {"parse", "write", "callbacks"}}

\* _check_error: raises RuntimeError when the future holds an exception.
_check_error(future_exception) ==
    IF future_exception # "none" THEN "RuntimeError" ELSE "none"

\* Mutant of the loop: an exception of the done callback ends the loop.
AfterAddDoneCallback_Propagates(callback_raised) ==
    IF callback_raised # "none" THEN "shutdown" ELSE "submit"

\* Where run_on_directory goes on after future.add_done_callback(_check_error):
\* to the next file of the glob, whatever the callback did (the future catches
\* and logs an exception of a callback it invokes).
AfterAddDoneCallback(callback_raised) == "submit"

\* os.path.exists(output) / os.mkdir(output): the directory exists or is made,
\* or mkdir raises FileNotFoundError and run_on_directory returns.
MkDir ==
    /\ mainPc = "mkdir"
    /\ \E made \in BOOLEAN : mainPc' = IF made THEN "submit" ELSE "returned"
    /\ UNCHANGED <<fileKind, cur, queue, fut, exc, runPc, written, registered, logged>>
    /\ UNCHANGED calcVars

\* future = executor.submit(run, filename, output), for the glob's next file
Submit(f) ==
    /\ mainPc = "submit"
    /\ fut[f] = "unsubmitted"
    /\ fut' = [fut EXCEPT ![f] = "PENDING"]
    /\ queue' = Append(queue, f)
    /\ cur' = f
    /\ mainPc' = "add_done_callback"
    /\ UNCHANGED <<fileKind, exc, runPc, written, registered, logged>>
    /\ UNCHANGED calcVars

\* future.add_done_callback(_check_error): appended to the future's callbacks,
\* or, the future being finished already, called at once by the main thread.
AddDoneCallback ==
    /\ mainPc = "add_done_callback"
    /\ IF fut[cur] = "FINISHED"
       THEN /\ logged' = IF _check_error(exc[cur]) # "none" THEN logged + 1 ELSE logged
            /\ mainPc' = AfterAddDoneCallback(_check_error(exc[cur]))
            /\ UNCHANGED registered
       ELSE /\ registered' = [registered EXCEPT ![cur] = TRUE]
            /\ mainPc' = AfterAddDoneCallback("none")
            /\ UNCHANGED logged
    /\ UNCHANGED <<fileKind, cur, queue, fut, exc, runPc, written>>
    /\ UNCHANGED calcVars

\* The glob is exhausted: the with block exits, executor.shutdown(wait=True).
LeaveLoop ==
    /\ mainPc = "submit"
    /\ \A f \in Files : fut[f] # "unsubmitted"
    /\ mainPc' = "shutdown"
    /\ UNCHANGED <<fileKind, cur, queue, fut, exc, runPc, written, registered, logged>>
    /\ UNCHANGED calcVars

\* shutdown(wait=True) returns once the queue is drained and every thread is joined.
Joined ==
    /\ mainPc = "shutdown"
    /\ queue = <<>>
    /\ Busy = {}
    /\ mainPc' = "exited"
    /\ UNCHANGED <<fileKind, cur, queue, fut, exc, runPc, written, registered, logged>>
    /\ UNCHANGED calcVars

\* A worker thread takes the head of the work queue and enters run().
WorkerStart(f) ==
    /\ queue # <<>>
    /\ Head(queue) = f
    /\ Cardinality(Busy) < MaxWorkers
    /\ queue' = Tail(queue)
    /\ fut' = [fut EXCEPT ![f] = "RUNNING"]
    /\ runPc' = [runPc EXCEPT ![f] = "parse"]
    /\ UNCHANGED <<fileKind, mainPc, cur, exc, written, registered, logged>>
    /\ UNCHANGED calcVars

\* run(): parser.parse and config.build_runner; on success the output file is opened.
RunParse(f) ==
    /\ runPc[f] = "parse"
    /\ IF fileKind[f] = "parse_error"
       THEN /\ fut' = [fut EXCEPT ![f] = "FINISHED"]
            /\ exc' = [exc EXCEPT ![f] = "ParserError"]
            /\ runPc' = [runPc EXCEPT ![f] = "callbacks"]
       ELSE /\ runPc' = [runPc EXCEPT ![f] = "write"]
            /\ UNCHANGED <<fut, exc>>
    /\ UNCHANGED <<fileKind, mainPc, cur, queue, written, registered, logged>>
    /\ UNCHANGED calcVars

\* run(): the next task result is computed and its line written, or the task
\* raises; a file with a computation error raises at one of its tasks.
RunTask(f) ==
    /\ runPc[f] = "write"
    /\ written[f] < TasksPerFile
    /\ \E raises \in BOOLEAN :
          /\ raises => fileKind[f] = "calc_error"
          /\ (fileKind[f] = "calc_error" /\ written[f] = TasksPerFile - 1) => raises
          /\ IF raises
             THEN /\ fut' = [fut EXCEPT ![f] = "FINISHED"]
                  /\ exc' = [exc EXCEPT ![f] = CalculationError]
                  /\ runPc' = [runPc EXCEPT ![f] = "callbacks"]
                  /\ UNCHANGED written
             ELSE /\ written' = [written EXCEPT ![f] = written[f] + 1]
                  /\ UNCHANGED <<fut, exc, runPc>>
    /\ UNCHANGED <<fileKind, mainPc, cur, queue, registered, logged>>
    /\ UNCHANGED calcVars

\* run() returns after the last task: the future is finished with a result.
RunReturn(f) ==
    /\ runPc[f] = "write"
    /\ written[f] = TasksPerFile
    /\ fut' = [fut EXCEPT ![f] = "FINISHED"]
    /\ runPc' = [runPc EXCEPT ![f] = "callbacks"]
    /\ UNCHANGED <<fileKind, mainPc, cur, queue, exc, written, registered, logged>>
    /\ UNCHANGED calcVars

\* The worker thread invokes the finished future's done callbacks; the future
\* catches and logs what _check_error raises, and the thread is free again.
InvokeCallbacks(f) ==
    /\ runPc[f] = "callbacks"
    /\ logged' = IF registered[f] /\ _check_error(exc[f]) # "none"
                 THEN logged + 1 ELSE logged
    /\ runPc' = [runPc EXCEPT ![f] = "returned"]
    /\ UNCHANGED <<fileKind, mainPc, cur, queue, fut, exc, written, registered>>
    /\ UNCHANGED calcVars

WorkerNext ==
    \E f \in Files :
        WorkerStart(f) \/ RunParse(f) \/ RunTask(f) \/ RunReturn(f) \/ InvokeCallbacks(f)

MainNext == MkDir \/ (\E f \in Files : Submit(f)) \/ AddDoneCallback \/ LeaveLoop \/ Joined

NextPool == MainNext \/ WorkerNext

\* The main thread and the pool's threads are scheduled by the operating system:
\* a step that stays possible is taken.
SpecPool == InitPool /\ [][NextPool]_vars /\ WF_vars(MainNext) /\ WF_vars(WorkerNext)

\* A file's run() failed.
Failed(f) == fut[f] = "FINISHED" /\ exc[f] # "none"

\* A file's run() ran to completion and wrote its full output file.
Completed(f) == fut[f] = "FINISHED" /\ exc[f] = "none" /\ written[f] = TasksPerFile

\* C8: once run_on_directory has left the executor's with block, every input
\* file whose own run() does not fail was submitted, ran to completion and wrote
\* its full output file, however many sibling files failed; and a run that
\* enters the loop always leaves the with block.
C8_WorkerIsolation ==
    /\ [](mainPc = "exited" =>
            \A f \in Files : fileKind[f] = "ok" => Completed(f))
    /\ [](mainPc = "submit" => <>(mainPc = "exited"))

\* C8's case: the run is over; one file failed at its second task, leaving one
\* line written, its callback raised and was logged, and its sibling completed.
C8_Witness ==
    /\ mainPc = "exited"
    /\ \E f, h \in Files :
          /\ Failed(f) /\ exc[f] = CalculationError /\ written[f] = 1
          /\ Completed(h)
    /\ logged = 1

\* ------------------------------------------------------------------ claims on Curve.add / Curve.mul

Z23 == [kind |-> "Zp", p |-> 23, a |-> 1, b |-> 1]

\* Two calls end alike: the same point returned, or both raise.
SameOutcome(o1, o2) ==
    /\ (o1.err = NoError) <=> (o2.err = NoError)
    /\ o1.err = NoError => o1.pt = o2.pt

AddDone == pc = "done" /\ task.task_type = "a"
MulDone == pc = "done" /\ task.task_type = "m"

\* The field negation of an affine point.
Negated(c, P) == Point(P.x, ZpModulus(c.p, 0 - P.y))

\* C1: for every affine point P on y^2 = x^3 + x + 1 over Z_23, points with
\* y = 0 included, add(P, -P) returns the point at infinity and does not raise.
C1_InverseIsInfinity ==
    (/\ AddDone
     /\ curve = Z23
     /\ OnCurve(curve, task.p1) /\ Canonical(curve, task.p1)
     /\ task.p2 = Negated(curve, task.p1))
    => (out.err = NoError /\ out.pt = Infinity)

\* C2: for every affine point P on the curve, whenever add(P, P) returns a
\* point, mul(P, 2) returns that same point (mul raises only if add raises).
C2_DoublingConsistency ==
    (/\ MulDone
     /\ task_scalar = 2
     /\ OnCurve(curve, task.p1)
     /\ add(curve, task.p1, task.p1).err = NoError)
    => (out.err = NoError /\ out.pt = add(curve, task.p1, task.p1).pt)

\* add(mul(P, k1), mul(P, k2)), raising when either mul raises.
AddOfMuls(c, P, k1, k2) ==
    LET m1 == mul(c, P, k1)
        m2 == mul(c, P, k2)
    IN  IF m1.err # NoError THEN Raise(m1.err, <<>>)
        ELSE IF m2.err # NoError THEN Raise(m2.err, <<>>)
        ELSE add(c, m1.pt, m2.pt)

\* C3: for every point P on the curve and all non-negative k1, k2 with
\* k1 + k2 the task's scalar, mul(P, k1 + k2) and add(mul(P, k1), mul(P, k2))
\* end alike: the same point, neither side raising when the other does not.
C3_Distributivity ==
    (/\ MulDone
     /\ task_scalar \in 0 .. MaxSmallScalar
     /\ OnCurve(curve, task.p1))
    => \A k1 \in 0 .. task_scalar :
          SameOutcome(out, AddOfMuls(curve, task.p1, k1, task_scalar - k1))

\* C4: add(P, Q) and add(Q, P) end alike for all points P, Q, affine or
\* infinity: the same returned point, or both raise.
C4_Commutative ==
    AddDone => SameOutcome(out, add(curve, task.p2, task.p1))

\* C4's case: a chord addition of two distinct affine points that returned a point.
C4_Witness ==
    /\ AddDone
    /\ task.p1 = Point(3, 10) /\ task.p2 = Point(4, 0)
    /\ curve = Z23
    /\ out.err = NoError /\ out.pt = Point(1, 16)

\* C5: add(P, infinity) and add(infinity, P) return P itself, with no
\* coefficient formula and no field inversion evaluated.
C5_Identity ==
    AddDone =>
        /\ is_infinite(task.p2) => out = Return(task.p1, <<>>)
        /\ is_infinite(task.p1) => out = Return(task.p2, <<>>)

\* C5's case: an affine point added to infinity on the right came back unchanged.
C5_Witness ==
    /\ AddDone
    /\ ~is_infinite(task.p1) /\ is_infinite(task.p2)
    /\ out.pt = task.p1 /\ out.trace = <<>>

\* C6: on ZpCurve(p=23, a=1, b=1), add((3,10), (3,10)) = (7,12),
\* add((3,10), (4,0)) = (1,16) and mul((3,10), 0) is the point at infinity.
C6_ConcreteScenario ==
    (curve = Z23 /\ pc = "done" /\ task.p1 = Point(3, 10)) =>
        /\ (task.task_type = "a" /\ task.p2 = Point(3, 10))
              => (out.err = NoError /\ out.pt = Point(7, 12))
        /\ (task.task_type = "a" /\ task.p2 = Point(4, 0))
              => (out.err = NoError /\ out.pt = Point(1, 16))
        /\ (task.task_type = "m" /\ task_scalar = 0)
              => (out.err = NoError /\ out.pt = Infinity)

\* C6's case: the doubling of (3,10) on the Z_23 curve has run.
C6_Witness ==
    /\ AddDone /\ curve = Z23
    /\ task.p1 = Point(3, 10) /\ task.p2 = Point(3, 10)
    /\ out.pt = Point(7, 12)

\* C7: on a GF2SupersingularCurve whose a reduces to the field's zero, add(P, P)
\* raises CalculationError for every affine P and returns no point, while
\* add(P, Q) with P.x # Q.x is never rejected with that error.
C7_DegenerateSupersingular ==
    (/\ AddDone
     /\ curve.kind = "SS2"
     /\ GF2Modulus(curve.irr, curve.a) = GF2Zero
     /\ ~is_infinite(task.p1) /\ ~is_infinite(task.p2))
    => /\ task.p1 = task.p2 => out = Raise(CalculationError, <<"third_case">>)
       /\ task.p1.x # task.p2.x => out.err # CalculationError
       /\ (task.p1.x # task.p2.x /\ Canonical(curve, task.p1) /\ Canonical(curve, task.p2))
             => (out.err = NoError /\ ~is_infinite(out.pt))

\* C7's case: a doubling on a curve whose a = x^2 + x + 1 reduces to zero has raised.
C7_Witness ==
    /\ AddDone
    /\ curve.kind = "SS2" /\ curve.a = 7
    /\ task.p1 = task.p2 /\ ~is_infinite(task.p1)
    /\ out.err = CalculationError

\* C7's other case: a chord addition on such a curve has returned a point.
C7_ChordReached ==
    /\ AddDone
    /\ curve.kind = "SS2" /\ curve.a = 7
    /\ ~is_infinite(task.p1) /\ ~is_infinite(task.p2) /\ task.p1.x # task.p2.x
    /\ out.err = NoError

\* Python's int.bit_length
RECURSIVE bit_length(_)
bit_length(n) ==
    IF n = 0 THEN 0
    ELSE IF n < 0 THEN bit_length(0 - n)
    ELSE 1 + bit_length(n \div 2)

\* C9: for every multiply task the parser accepts, Curve.mul runs its loop
\* bit-length(scalar) times and no more, and then leaves it.
C9_MulLeavesLoop ==
    (task.task_type = "m" /\ pc \in {"mul", "done"}) =>
        /\ iters <= bit_length(task_scalar)
        /\ (pc = "done" /\ out.err = NoError) => iters = bit_length(task_scalar)

\* C10: every affine point add or mul returns is canonical, whatever the inputs.
C10_CanonicalResults ==
    (pc = "done" /\ out.err = NoError /\ ~is_infinite(out.pt))
    => Canonical(curve, out.pt)

\* C10 amended: an affine point returned by add with two affine operands, or by
\* mul with a scalar other than 1, is canonical; add with one operand at
\* infinity returns the other operand as given, and mul(P, 1) returns P as given.
C10_CanonicalUnlessPassedThrough ==
    (pc = "done" /\ out.err = NoError /\ ~is_infinite(out.pt)) =>
        /\ (task.task_type = "a" /\ ~is_infinite(task.p1) /\ ~is_infinite(task.p2))
              => Canonical(curve, out.pt)
        /\ (task.task_type = "a" /\ is_infinite(task.p1)) => out.pt = task.p2
        /\ (task.task_type = "a" /\ is_infinite(task.p2)) => out.pt = task.p1
        /\ (task.task_type = "m" /\ task_scalar # 1) => Canonical(curve, out.pt)
        /\ (task.task_type = "m" /\ task_scalar = 1) => out.pt = task.p1

\* C10's case: two affine operands, one unreduced, added to a canonical point.
C10_Witness ==
    /\ AddDone
    /\ ~is_infinite(task.p1) /\ ~is_infinite(task.p2)
    /\ ~Canonical(curve, task.p1)
    /\ out.err = NoError /\ ~is_infinite(out.pt) /\ Canonical(curve, out.pt)

\* A point of the curve's group: infinity, or a point satisfying the curve equation.
InfinityOrOnCurve(c, P) == is_infinite(P) \/ OnCurve(c, P)

\* C11: for all points P, Q that are infinity or satisfy y^2 = x^3 + a x + b
\* over Z_p, a point returned by add(P, Q) is infinity or satisfies the equation;
\* and so is every point returned by mul(P, k) for P on the curve.
C11_Closure ==
    (/\ pc = "done"
     /\ curve.kind = "Zp"
     /\ out.err = NoError
     /\ InfinityOrOnCurve(curve, task.p1)
     /\ task.task_type = "a" => InfinityOrOnCurve(curve, task.p2))
    => InfinityOrOnCurve(curve, out.pt)

\* C11's case: mul(P, 3) on the Z_23 curve, which adds P to its double, has
\* returned an affine point of the curve other than P.
C11_Witness ==
    /\ MulDone
    /\ curve = Z23
    /\ OnCurve(curve, task.p1)
    /\ task_scalar = 3
    /\ out.err = NoError /\ OnCurve(curve, out.pt) /\ out.pt # task.p1

====
